---- MODULE Spec2Model ----
(***************************************************************************)
(* Synchronization scheduler of konakore_postgre: the two pg_cron jobs     *)
(* 'backfill-all' and 'sync-recent' (migrations/002_sync_functions.sql),   *)
(* the rows they keep in schedule_state and the posts they upsert          *)
(* (migrations/001_initial_schema.sql), and their cron entries             *)
(* (migrations/003_bootstrap_schedulers.sql).                              *)
(*                                                                         *)
(* One action per PL/pgSQL function call (a tick).  A function call is one *)
(* transaction: an exception that leaves the function rolls back every     *)
(* write of the call.  Where calls overlap, a call is taken statement by   *)
(* statement in its own session (variable txn).                            *)
(*                                                                         *)
(* Time is kept relative to the latest tick: a timestamp column holds      *)
(* "NULL", "NOW" (written by the latest tick) or "PAST" (written by an     *)
(* earlier tick).                                                          *)
(***************************************************************************)
EXTENDS Integers, Sequences, FiniteSets, TLC

VARIABLES
    schedule_state, \* job_name -> [state: jsonb object, last_run_at]
    cron_job,       \* job name -> schedule text, or "unscheduled"
    posts,          \* post id -> row of table posts, or NoRow
    last,           \* locals of the latest call: job, page, response, result
    fail_run,       \* history: job -> consecutive Failure results on fail_page
    fail_page,      \* history: job -> page those Failure results were for
    stay,           \* history: consecutive sync-recent ticks that kept the cursor
    run,            \* history: pages of the current run of sync-recent Successes
    txn,            \* session -> the function call (transaction) it is running
    ok_pages        \* history: the pages backfill-all fetched with result Success

vars == <<schedule_state, cron_job, posts, last, fail_run, fail_page, stay, run, txn,
          ok_pages>>

----------------------------------------------------------------------------
(* Bounds of the model *)

MaxPage == 3     \* the backfill cursor is explored up to this page
MaxId == 1       \* post ids 1..MaxId
MaxItems == 1    \* a response array holds at most this many items
MaxFetchItems == 2  \* the same, for direct calls of sync_posts_from_remote
MaxCalls == 2    \* calls one session makes where the calls are taken by statement

(* Program constants *)

MAX_RETRIES == 10            \* task_backfill_all_posts
MAX_RETRIES_RECURRING == 5   \* task_sync_recent_posts (its MAX_RETRIES)
W == 30                      \* window of task_sync_recent_posts

BACKFILL == "backfill-all"
RECENT == "sync-recent"
Jobs == {BACKFILL, RECENT}

SHORT_DELAY == "10 seconds"
LONG_DELAY == "5 minutes"
BOOT_DELAY == "59 seconds"
RECENT_CRON == "*/48 * * * *"
UNSCHEDULED == "unscheduled"

----------------------------------------------------------------------------
(* Table posts *)

Ids == 1..MaxId
NoRow == [absent |-> TRUE]

\* the items a response may hold: ids of I, data of D
PostItems(I, D) == [id : I, data : D]

\* mutant: ON CONFLICT (id) DO NOTHING
UpsertOne_InsertOnly(store, item) ==
    IF store[item.id] = NoRow
    THEN [store EXCEPT ![item.id] =
            [raw_data |-> item.data, is_processed |-> FALSE,
             is_liked |-> FALSE, last_synced_at |-> "NOW"]]
    ELSE store

\* mutant: the conflicting row is replaced by the new one (REPLACE semantics)
UpsertOne_ReplacesRow(store, item) ==
    [store EXCEPT ![item.id] =
        [raw_data |-> item.data, is_processed |-> FALSE,
         is_liked |-> FALSE, last_synced_at |-> "NOW"]]

\* mutant: ON CONFLICT (id) DO UPDATE also flips is_processed
UpsertOne_ConflictToggles(store, item) ==
    IF store[item.id] = NoRow
    THEN [store EXCEPT ![item.id] =
            [raw_data |-> item.data, is_processed |-> FALSE,
             is_liked |-> FALSE, last_synced_at |-> "NOW"]]
    ELSE [store EXCEPT ![item.id] =
            [@ EXCEPT !.raw_data = item.data, !.last_synced_at = "NOW",
                      !.is_processed = ~@]]

\* INSERT ... ON CONFLICT (id) DO UPDATE SET raw_data, last_synced_at
UpsertOne(store, item) ==
    IF store[item.id] = NoRow
    THEN [store EXCEPT ![item.id] =
            [raw_data |-> item.data, is_processed |-> FALSE,
             is_liked |-> FALSE, last_synced_at |-> "NOW"]]
    ELSE [store EXCEPT ![item.id] =
            [@ EXCEPT !.raw_data = item.data, !.last_synced_at = "NOW"]]

\* FOR post_item IN SELECT * FROM jsonb_array_elements(response) LOOP
RECURSIVE UpsertAll(_, _)
UpsertAll(store, items) ==
    IF items = <<>> THEN store
    ELSE UpsertAll(UpsertOne(store, Head(items)), Tail(items))

----------------------------------------------------------------------------
(* The remote: what net.http_get gives for one call *)

SeqsUpTo(S, n) == UNION {[1..k -> S] : k \in 0..n}

\* What one call of net.http_get gives.  kind: "error" the request raised
\* (no response), "null" content is NULL, "notjson" content is no JSON text,
\* "nonarray" content is JSON but no array, "array" content is a JSON array.
\* status: the HTTP status class, which the function never reads.
\* Items carry ids of I and data of D, at most n of them; statuses of S.
RemoteResponses(I, D, n, S) ==
    {[kind |-> "error", items |-> <<>>, status |-> "none"]}
    \cup {[kind |-> k, items |-> <<>>, status |-> st] :
             k \in {"null", "notjson", "nonarray"}, st \in S}
    \cup {[kind |-> "array", items |-> s, status |-> st] :
             s \in SeqsUpTo(PostItems(I, D), n), st \in S}

\* the responses of a remote that answers 2xx with a JSON body, or not at all
Responses(I, D) ==
    {r \in RemoteResponses(I, D, MaxItems, {"2xx"}) : r.kind # "notjson"}

\* no call of net.http_get was made
NoResponse == [kind |-> "none", items |-> <<>>, status |-> "none"]

\* jsonb_array_length(response) raises on a non-array, outside the handler
SyncRaises(resp) == resp.kind = "nonarray"

\* the status code sync_posts_from_remote returns; SELECT content INTO
\* response (a JSONB variable) raises inside the handler on text that is no JSON
SyncCount(resp) ==
    IF resp.kind = "error" \/ resp.kind = "notjson" THEN -1
    ELSE IF resp.kind = "null" \/ Len(resp.items) = 0 THEN 0
    ELSE Len(resp.items)

\* the posts table after sync_posts_from_remote
SyncPosts(store, resp) ==
    IF resp.kind = "array" THEN UpsertAll(store, resp.items) ELSE store

----------------------------------------------------------------------------
(* jsonb and timestamps *)

\* state || obj : the keys of obj override those of state
Merge(state, obj) == obj @@ state

Age(t) == IF t = "NOW" THEN "PAST" ELSE t

AgeRows(ss) == [j \in DOMAIN ss |-> [ss[j] EXCEPT !.last_run_at = Age(@)]]

AgePosts(store) ==
    [i \in DOMAIN store |->
        IF store[i] = NoRow THEN NoRow
        ELSE [store[i] EXCEPT !.last_synced_at = Age(@)]]

\* mutant: the UPDATE has no WHERE clause
SetState_AllRows(ss, j, s) == [k \in DOMAIN ss |-> [ss[k] EXCEPT !.state = s]]

\* UPDATE schedule_state SET state = s WHERE job_name = j
SetState(ss, j, s) == [ss EXCEPT ![j].state = s]

\* mutant: the tick forgets to write last_run_at
Touch_Forgets(ss, j) == ss

\* UPDATE schedule_state SET last_run_at = NOW() WHERE job_name = j
Touch(ss, j) == [ss EXCEPT ![j].last_run_at = "NOW"]

\* mutant: the modulus is taken after the increment
NextPage_ModAfter(current_page) == (current_page + 1) % W

\* next_page := (current_page % 30) + 1
NextPage(current_page) == (current_page % W) + 1

----------------------------------------------------------------------------
(* Seed rows and cron entries *)

\* the jsonb state of each job's row
Bf == schedule_state[BACKFILL].state
Rc == schedule_state[RECENT].state

\* mutant: the seed rows start at page 0
SeedState_PageZero(j) ==
    IF j = BACKFILL THEN [current_page |-> 0, retries |-> 0, is_active |-> TRUE]
    ELSE [current_page |-> 0, retries |-> 0]

\* INSERT INTO schedule_state: the seed row of job j
SeedState(j) ==
    IF j = BACKFILL THEN [current_page |-> 1, retries |-> 0, is_active |-> TRUE]
    ELSE [current_page |-> 1, retries |-> 0]

\* the database sessions that call the functions
Sessions == {"s1", "s2"}

\* a session that has called nothing yet: pc, the locals of the function
\* (loaded, resp, processed_count, done), the rows written and not yet
\* committed, and the history of the session (outcome of the latest call,
\* calls made, calls ended before the latest call began (since) and up to
\* its own end (order), the state its latest committed call wrote)
NoTxn ==
    [pc |-> "idle", job |-> "none",
     loaded |-> [current_page |-> 0, retries |-> 0, is_active |-> FALSE],
     resp |-> NoResponse, processed_count |-> 0, done |-> 0,
     writes |-> [i \in Ids |-> NoRow],
     outcome |-> "none", calls |-> 0, since |-> 0, order |-> 0,
     wrote |-> [nothing |-> TRUE]]

Init ==
    /\ schedule_state = [j \in Jobs |-> [state |-> SeedState(j), last_run_at |-> "NULL"]]
    /\ cron_job = [j \in Jobs |-> IF j = BACKFILL THEN BOOT_DELAY ELSE RECENT_CRON]
    /\ posts = [i \in Ids |-> NoRow]
    /\ last = [job |-> "none", outcome |-> "none", page |-> 0, processed_count |-> 0,
               resp |-> NoResponse]
    /\ fail_run = [j \in Jobs |-> 0]
    /\ fail_page = [j \in Jobs |-> 0]
    /\ stay = 0
    /\ run = <<>>
    /\ txn = [s \in Sessions |-> NoTxn]
    /\ ok_pages = {}

----------------------------------------------------------------------------
(* History of fetch results, kept beside the program state.  A call that   *)
(* raised was rolled back: the history does not count it.                  *)

\* consecutive Failure results of job j for one page, after result n for page
FailRun(j, page, n) ==
    IF n # -1 THEN 0
    ELSE IF fail_run[j] > 0 /\ fail_page[j] = page THEN fail_run[j] + 1
    ELSE 1

Count(j, page, n) ==
    /\ fail_run' = [fail_run EXCEPT ![j] = FailRun(j, page, n)]
    /\ fail_page' = [fail_page EXCEPT ![j] = page]

\* the pages of the current run of Success results; a run that has shown one
\* full cycle and the wrap (W + 1 pages) starts again
RunAfter(page, n) ==
    IF n <= 0 THEN <<>>
    ELSE IF Len(run) > W THEN <<page>>
    ELSE Append(run, page)

\* consecutive completed sync-recent ticks whose cursor stayed where it was
StayAfter(before, after) == IF after = before THEN stay + 1 ELSE 0

----------------------------------------------------------------------------
(* A call that ends without a write: time passes, nothing else changes *)

NoWrite(j, outcome, page, resp) ==
    /\ schedule_state' = AgeRows(schedule_state)
    /\ posts' = AgePosts(posts)
    /\ last' = [job |-> j, outcome |-> outcome, page |-> page, processed_count |-> 0,
                resp |-> resp]
    /\ UNCHANGED <<cron_job, fail_run, fail_page, stay, run, txn, ok_pages>>

----------------------------------------------------------------------------
(* task_backfill_all_posts *)

\* mutant: gives up one Failure late (> for >=)
BackfillState_GiveUpLate(state, n) ==
    IF n > 0
    THEN Merge(state, [current_page |-> state.current_page + 1, retries |-> 0])
    ELSE IF n = 0
    THEN Merge(state, [is_active |-> FALSE, final_status |-> "completed"])
    ELSE IF state.retries + 1 > MAX_RETRIES
    THEN Merge(state, [is_active |-> FALSE, final_status |-> "failed"])
    ELSE Merge(state, [retries |-> state.retries + 1])

\* mutant: an empty page counts as a Success (>= 0 for > 0)
BackfillState_EmptyAdvances(state, n) ==
    IF n >= 0
    THEN Merge(state, [current_page |-> state.current_page + 1, retries |-> 0])
    ELSE IF state.retries + 1 >= MAX_RETRIES
    THEN Merge(state, [is_active |-> FALSE, final_status |-> "failed"])
    ELSE Merge(state, [retries |-> state.retries + 1])

\* mutant: a Success advances the page and forgets to reset retries
BackfillState_KeepsRetries(state, n) ==
    IF n > 0
    THEN Merge(state, [current_page |-> state.current_page + 1])
    ELSE IF n = 0
    THEN Merge(state, [is_active |-> FALSE, final_status |-> "completed"])
    ELSE IF state.retries + 1 >= MAX_RETRIES
    THEN Merge(state, [is_active |-> FALSE, final_status |-> "failed"])
    ELSE Merge(state, [retries |-> state.retries + 1])

\* mutant: a Success advances the page by two
BackfillState_SkipsPage(state, n) ==
    IF n > 0
    THEN Merge(state, [current_page |-> state.current_page + 2, retries |-> 0])
    ELSE IF n = 0
    THEN Merge(state, [is_active |-> FALSE, final_status |-> "completed"])
    ELSE IF state.retries + 1 >= MAX_RETRIES
    THEN Merge(state, [is_active |-> FALSE, final_status |-> "failed"])
    ELSE Merge(state, [retries |-> state.retries + 1])

\* mutant: a Failure always retries, the give-up test is missing
BackfillState_NeverGivesUp(state, n) ==
    IF n > 0
    THEN Merge(state, [current_page |-> state.current_page + 1, retries |-> 0])
    ELSE IF n = 0
    THEN Merge(state, [is_active |-> FALSE, final_status |-> "completed"])
    ELSE Merge(state, [retries |-> state.retries + 1])

\* mutant: an Empty records final_status but leaves is_active as it was
BackfillState_EmptyKeepsActive(state, n) ==
    IF n > 0
    THEN Merge(state, [current_page |-> state.current_page + 1, retries |-> 0])
    ELSE IF n = 0
    THEN Merge(state, [final_status |-> "completed"])
    ELSE IF state.retries + 1 >= MAX_RETRIES
    THEN Merge(state, [is_active |-> FALSE, final_status |-> "failed"])
    ELSE Merge(state, [retries |-> state.retries + 1])

\* mutant: giving up resets retries, as the recurring job does
BackfillState_GiveUpResets(state, n) ==
    IF n > 0
    THEN Merge(state, [current_page |-> state.current_page + 1, retries |-> 0])
    ELSE IF n = 0
    THEN Merge(state, [is_active |-> FALSE, final_status |-> "completed"])
    ELSE IF state.retries + 1 >= MAX_RETRIES
    THEN Merge(state, [is_active |-> FALSE, final_status |-> "failed", retries |-> 0])
    ELSE Merge(state, [retries |-> state.retries + 1])

\* mutant: giving up records final_status and leaves is_active as it was
BackfillState_GiveUpKeepsActive(state, n) ==
    IF n > 0
    THEN Merge(state, [current_page |-> state.current_page + 1, retries |-> 0])
    ELSE IF n = 0
    THEN Merge(state, [is_active |-> FALSE, final_status |-> "completed"])
    ELSE IF state.retries + 1 >= MAX_RETRIES
    THEN Merge(state, [final_status |-> "failed"])
    ELSE Merge(state, [retries |-> state.retries + 1])

\* the CASE on processed_count: the new jsonb state of row 'backfill-all'
BackfillState(state, n) ==
    IF n > 0
    THEN Merge(state, [current_page |-> state.current_page + 1, retries |-> 0])
    ELSE IF n = 0
    THEN Merge(state, [is_active |-> FALSE, final_status |-> "completed"])
    ELSE IF state.retries + 1 >= MAX_RETRIES
    THEN Merge(state, [is_active |-> FALSE, final_status |-> "failed"])
    ELSE Merge(state, [retries |-> state.retries + 1])

\* mutant: a retry is rescheduled with the delay of a Success
BackfillCron_RetryShort(state, n) ==
    IF n > 0 THEN SHORT_DELAY
    ELSE IF n = 0 THEN UNSCHEDULED
    ELSE IF state.retries + 1 >= MAX_RETRIES THEN UNSCHEDULED
    ELSE SHORT_DELAY

\* mutant: the END OF DATA branch does not unschedule the job
BackfillCron_EmptyStaysScheduled(state, n) ==
    IF n > 0 THEN SHORT_DELAY
    ELSE IF n = 0 THEN SHORT_DELAY
    ELSE IF state.retries + 1 >= MAX_RETRIES THEN UNSCHEDULED
    ELSE LONG_DELAY

\* the CASE on processed_count: cron.schedule / cron.unschedule
BackfillCron(state, n) ==
    IF n > 0 THEN SHORT_DELAY
    ELSE IF n = 0 THEN UNSCHEDULED
    ELSE IF state.retries + 1 >= MAX_RETRIES THEN UNSCHEDULED
    ELSE LONG_DELAY

\* mutant: the call names the other job
CronSet_OtherJob(cj, jobname, schedule) ==
    [cj EXCEPT ![CHOOSE k \in DOMAIN cj : k # jobname] = schedule]

\* cron.schedule(jobname, schedule, ...) replaces the entry of that name;
\* cron.unschedule(jobname) removes it
CronSet(cj, jobname, schedule) == [cj EXCEPT ![jobname] = schedule]

\* mutant: the NOT of the test is missing
IsActive_Inverted(state) == ~state.is_active

\* mutant: the tick does not look at is_active
IsActive_Ignored(state) == TRUE

\* IF NOT is_active THEN RETURN; END IF;
IsActive(state) == state.is_active

\* mutant: the Failure branch is only the retry, giving up has no WHEN
CaseNotFound_NoGiveUp(state, n) ==
    ~(n > 0 \/ n = 0 \/ (n = -1 /\ state.retries + 1 < MAX_RETRIES))

\* CASE without ELSE raises CASE_NOT_FOUND when no WHEN holds
CaseNotFound(state, n) == ~(n > 0 \/ n = 0 \/ n = -1)

BackfillTick(R) ==
    \E resp \in R :
        LET state == schedule_state[BACKFILL].state
            current_page == state.current_page
            n == SyncCount(resp)
        IN  IF ~IsActive(state)
            THEN NoWrite(BACKFILL, "skipped", 0, NoResponse)
            ELSE IF SyncRaises(resp) \/ CaseNotFound(state, n)
            THEN NoWrite(BACKFILL, "raised", current_page, resp)
            ELSE /\ n > 0 => current_page < MaxPage
                 /\ schedule_state' =
                      Touch(SetState(AgeRows(schedule_state), BACKFILL,
                                     BackfillState(state, n)), BACKFILL)
                 /\ cron_job' = CronSet(cron_job, BACKFILL, BackfillCron(state, n))
                 /\ posts' = SyncPosts(AgePosts(posts), resp)
                 /\ last' = [job |-> BACKFILL, outcome |-> "done",
                             page |-> current_page, processed_count |-> n,
                             resp |-> resp]
                 /\ Count(BACKFILL, current_page, n)
                 /\ ok_pages' = IF n > 0 THEN ok_pages \cup {current_page} ELSE ok_pages
                 /\ UNCHANGED <<stay, run, txn>>

----------------------------------------------------------------------------
(* task_sync_recent_posts *)

\* mutant: gives up on the page one Failure late (> for >=)
RecurringState_GiveUpLate(state, n) ==
    IF n >= 0
    THEN [current_page |-> NextPage(state.current_page), retries |-> 0]
    ELSE IF state.retries + 1 > MAX_RETRIES_RECURRING
    THEN [current_page |-> NextPage(state.current_page), retries |-> 0]
    ELSE Merge(state, [retries |-> state.retries + 1])

\* mutant: giving up resets retries and stays on the page
RecurringState_GiveUpStays(state, n) ==
    IF n >= 0
    THEN [current_page |-> NextPage(state.current_page), retries |-> 0]
    ELSE IF state.retries + 1 >= MAX_RETRIES_RECURRING
    THEN [current_page |-> state.current_page, retries |-> 0]
    ELSE Merge(state, [retries |-> state.retries + 1])

\* mutant: gives up on the page one Failure early
RecurringState_GiveUpEarly(state, n) ==
    IF n >= 0
    THEN [current_page |-> NextPage(state.current_page), retries |-> 0]
    ELSE IF state.retries + 1 >= MAX_RETRIES_RECURRING - 1
    THEN [current_page |-> NextPage(state.current_page), retries |-> 0]
    ELSE Merge(state, [retries |-> state.retries + 1])

\* mutant: an empty page counts as a Failure (<= 0 for = -1)
RecurringState_EmptyIsFailure(state, n) ==
    IF n > 0
    THEN [current_page |-> NextPage(state.current_page), retries |-> 0]
    ELSE IF state.retries + 1 >= MAX_RETRIES_RECURRING
    THEN [current_page |-> NextPage(state.current_page), retries |-> 0]
    ELSE Merge(state, [retries |-> state.retries + 1])

\* the CASE on processed_count: the new jsonb state of row 'sync-recent'
RecurringState(state, n) ==
    IF n > 0
    THEN [current_page |-> NextPage(state.current_page), retries |-> 0]
    ELSE IF n = 0
    THEN [current_page |-> NextPage(state.current_page), retries |-> 0]
    ELSE IF state.retries + 1 >= MAX_RETRIES_RECURRING
    THEN [current_page |-> NextPage(state.current_page), retries |-> 0]
    ELSE Merge(state, [retries |-> state.retries + 1])

\* track: whether the history variable run is kept
RecurringTick(R, track) ==
    \E resp \in R :
        LET state == schedule_state[RECENT].state
            current_page == state.current_page
            n == SyncCount(resp)
        IN  IF SyncRaises(resp)
            THEN NoWrite(RECENT, "raised", current_page, resp)
            ELSE /\ schedule_state' =
                      Touch(SetState(AgeRows(schedule_state), RECENT,
                                     RecurringState(state, n)), RECENT)
                 /\ posts' = SyncPosts(AgePosts(posts), resp)
                 /\ last' = [job |-> RECENT, outcome |-> "done",
                             page |-> current_page, processed_count |-> n,
                             resp |-> resp]
                 /\ Count(RECENT, current_page, n)
                 /\ stay' = StayAfter(current_page, RecurringState(state, n).current_page)
                 /\ run' = IF track THEN RunAfter(current_page, n) ELSE run
                 /\ UNCHANGED <<cron_job, txn, ok_pages>>

----------------------------------------------------------------------------
(* Specifications *)

\* the raw_data values a post can have
Datas == {"a", "b"}

\* the scheduler: every response kind and length, one post id, one item data
SchedResponses == Responses({1}, {"a"})

Next == BackfillTick(SchedResponses) \/ RecurringTick(SchedResponses, FALSE)

Spec == Init /\ [][Next]_vars

\* sync-recent alone, with the history of its runs of Successes
NextRecurring == RecurringTick(SchedResponses, TRUE)

SpecRecurring == Init /\ [][NextRecurring]_vars

\* the responses that give the tick a fetch result: Success, Empty or Failure
ResultResponses == {r \in Responses({1}, Datas) : ~SyncRaises(r)}

\* pg_cron fires 'backfill-all' for as long as the job is scheduled
ScheduledBackfillTick(R) ==
    /\ cron_job[BACKFILL] # UNSCHEDULED
    /\ BackfillTick(R)

\* backfill-all alone, fired by pg_cron until the tick unschedules it; a
\* page from MaxPage on gives no Success (the guard of BackfillTick)
NextTerm == ScheduledBackfillTick(ResultResponses)

SpecTerm == Init /\ [][NextTerm]_vars /\ WF_vars(NextTerm)

\* sync-recent alone, fired by pg_cron again and again, every tick with a
\* fetch result
NextCycle == RecurringTick(ResultResponses, FALSE)

SpecCycle == Init /\ [][NextCycle]_vars /\ WF_vars(NextCycle)

----------------------------------------------------------------------------
(* The functions statement by statement, one transaction per session.  A   *)
(* row written by a transaction stays locked until the transaction ends:   *)
(* the INSERT ... ON CONFLICT or UPDATE of another session waits for it    *)
(* and then works on the committed row (READ COMMITTED, no FOR UPDATE in   *)
(* the SELECT).  The UPDATEs of schedule_state, the cron call and the      *)
(* commit are one step: once the first UPDATE has the row, the call waits  *)
(* for nothing any more.  last and the history variables are not kept.     *)

\* mutant: a session that has run the job before uses the locals it kept
LoadState_Cached(state, mem) == IF mem.job # "none" THEN mem.loaded ELSE state

\* SELECT (state->>'current_page'), ... INTO current_page, is_active, retries;
\* mem is what the session holds from its earlier calls
LoadState(state, mem) == state

\* the UPDATE of row 'backfill-all': the locals merged into the row as it is
BackfillUpdate(row, loaded, n) ==
    IF n > 0
    THEN Merge(row, [current_page |-> loaded.current_page + 1, retries |-> 0])
    ELSE IF n = 0
    THEN Merge(row, [is_active |-> FALSE, final_status |-> "completed"])
    ELSE IF loaded.retries + 1 >= MAX_RETRIES
    THEN Merge(row, [is_active |-> FALSE, final_status |-> "failed"])
    ELSE Merge(row, [retries |-> loaded.retries + 1])

\* the UPDATE of row 'sync-recent': a new object, or retries merged into the row
RecurringUpdate(row, loaded, n) ==
    IF n > 0
    THEN [current_page |-> NextPage(loaded.current_page), retries |-> 0]
    ELSE IF n = 0
    THEN [current_page |-> NextPage(loaded.current_page), retries |-> 0]
    ELSE IF loaded.retries + 1 >= MAX_RETRIES_RECURRING
    THEN [current_page |-> NextPage(loaded.current_page), retries |-> 0]
    ELSE Merge(row, [retries |-> loaded.retries + 1])

\* the number of the next call to end
NextOrder ==
    1 + (CHOOSE m \in {txn[t].order : t \in Sessions} :
            \A t \in Sessions : txn[t].order <= m)

\* session s after its call ended
Ended(s, outcome) ==
    [txn[s] EXCEPT !.pc = "idle", !.outcome = outcome, !.calls = @ + 1,
                   !.writes = NoTxn.writes, !.order = NextOrder]

\* the call of s ends without a commit: its writes are undone
Rollback(s, outcome) ==
    /\ txn' = [txn EXCEPT ![s] = Ended(s, outcome)]
    /\ schedule_state' = AgeRows(schedule_state)
    /\ posts' = AgePosts(posts)
    /\ UNCHANGED <<cron_job, last, fail_run, fail_page, stay, run, ok_pages>>

\* another session has written row i of posts and not yet ended
LockedByOther(s, i) == \E t \in Sessions \ {s} : txn[t].writes[i] # NoRow

NextItem(s) == txn[s].resp.items[txn[s].done + 1]

Waiting(s) == txn[s].pc = "upsert" /\ LockedByOther(s, NextItem(s).id)

\* s and another session each wait for a row the other has written
Deadlocked(s) ==
    /\ Waiting(s)
    /\ \E t \in Sessions \ {s} :
         /\ Waiting(t)
         /\ txn[t].writes[NextItem(s).id] # NoRow
         /\ txn[s].writes[NextItem(t).id] # NoRow

\* table posts as the statements of s see it
View(s) ==
    [i \in Ids |-> IF txn[s].writes[i] # NoRow THEN txn[s].writes[i] ELSE posts[i]]

\* the function of job j is called in session s and loads the row; an
\* inactive backfill returns at once
TxnLoad(s, j) ==
    /\ txn[s].pc = "idle"
    /\ txn[s].calls < MaxCalls
    /\ LET loaded == LoadState(schedule_state[j].state, txn[s])
           fresh == [txn[s] EXCEPT !.job = j, !.loaded = loaded,
                                   !.resp = NoResponse, !.processed_count = 0,
                                   !.done = 0, !.since = NextOrder - 1]
       IN  IF j = BACKFILL /\ ~IsActive(loaded)
           THEN /\ txn' = [txn EXCEPT ![s] =
                            [fresh EXCEPT !.outcome = "skipped", !.calls = @ + 1,
                                          !.order = NextOrder]]
                /\ schedule_state' = AgeRows(schedule_state)
                /\ posts' = AgePosts(posts)
           ELSE /\ txn' = [txn EXCEPT ![s] =
                            [fresh EXCEPT !.pc = "loaded", !.outcome = "running"]]
                /\ UNCHANGED <<schedule_state, posts>>
    /\ UNCHANGED <<cron_job, last, fail_run, fail_page, stay, run, ok_pages>>

\* net.http_get(page = current_page) and the test of the response
TxnFetch(s, R) ==
    /\ txn[s].pc = "loaded"
    /\ \E resp \in R :
         IF SyncRaises(resp)
         THEN /\ txn' = [txn EXCEPT ![s] = [Ended(s, "raised") EXCEPT !.resp = resp]]
              /\ schedule_state' = AgeRows(schedule_state)
              /\ posts' = AgePosts(posts)
              /\ UNCHANGED <<cron_job, last, fail_run, fail_page, stay, run, ok_pages>>
         ELSE /\ txn' = [txn EXCEPT ![s] =
                          [@ EXCEPT !.resp = resp,
                                    !.processed_count = SyncCount(resp),
                                    !.pc = IF SyncCount(resp) > 0 THEN "upsert"
                                           ELSE "fetched"]]
              /\ UNCHANGED <<schedule_state, cron_job, posts, last,
                             fail_run, fail_page, stay, run, ok_pages>>

\* one turn of the loop: INSERT ... ON CONFLICT (id) DO UPDATE.  It waits
\* while another session holds the row; of two sessions that wait for each
\* other the database ends one with an error
TxnUpsert(s) ==
    /\ txn[s].pc = "upsert"
    /\ LET item == NextItem(s)
       IN  IF LockedByOther(s, item.id)
           THEN Deadlocked(s) /\ Rollback(s, "deadlock")
           ELSE /\ txn' = [txn EXCEPT ![s] =
                            [@ EXCEPT !.writes[item.id] = UpsertOne(View(s), item)[item.id],
                                      !.done = @ + 1,
                                      !.pc = IF txn[s].done + 1 = Len(txn[s].resp.items)
                                             THEN "fetched" ELSE "upsert"]]
                /\ UNCHANGED <<schedule_state, cron_job, posts, last,
                               fail_run, fail_page, stay, run, ok_pages>>

\* the CASE on processed_count, the UPDATE of last_run_at, and the commit
TxnWrite(s) ==
    /\ txn[s].pc = "fetched"
    /\ LET j == txn[s].job
           n == txn[s].processed_count
           row == schedule_state[j].state
           new == IF j = BACKFILL THEN BackfillUpdate(row, txn[s].loaded, n)
                  ELSE RecurringUpdate(row, txn[s].loaded, n)
       IN  /\ schedule_state' = Touch(SetState(AgeRows(schedule_state), j, new), j)
           /\ cron_job' = IF j = BACKFILL
                          THEN CronSet(cron_job, BACKFILL, BackfillCron(txn[s].loaded, n))
                          ELSE cron_job
           /\ posts' = [i \in Ids |-> IF txn[s].writes[i] # NoRow THEN txn[s].writes[i]
                                       ELSE AgePosts(posts)[i]]
    /\ txn' = [txn EXCEPT ![s] =
                [Ended(s, "done") EXCEPT !.wrote = schedule_state'[txn[s].job].state]]
    /\ UNCHANGED <<last, fail_run, fail_page, stay, run, ok_pages>>

\* an UPDATE of schedule_state raises: no handler, the call is rolled back
TxnSaveFails(s) ==
    /\ txn[s].pc = "fetched"
    /\ Rollback(s, "save failed")

\* the server restarts between calls: the sessions keep nothing
Restart ==
    /\ \A s \in Sessions : txn[s].pc = "idle"
    /\ \E s \in Sessions : txn[s].job # "none"
    /\ txn' = [s \in Sessions |->
                [NoTxn EXCEPT !.calls = txn[s].calls, !.since = txn[s].since,
                              !.order = txn[s].order, !.wrote = txn[s].wrote]]
    /\ UNCHANGED <<schedule_state, cron_job, posts, last, fail_run, fail_page,
                   stay, run, ok_pages>>

\* pg_cron runs each job in a session of its own, one call of a job at a time
JobOf(s) == IF s = "s1" THEN BACKFILL ELSE RECENT

\* what the remote serves changes between the calls: the two jobs see
\* different data for a post
TxnResponses(j) == Responses(Ids, {IF j = BACKFILL THEN "a" ELSE "b"})

TxnRun(s) ==
    \/ TxnFetch(s, TxnResponses(txn[s].job))
    \/ TxnUpsert(s)
    \/ TxnWrite(s)
    \/ TxnSaveFails(s)

\* the two jobs as pg_cron runs them, statement by statement
NextJobs ==
    \/ \E s \in Sessions : TxnLoad(s, JobOf(s)) \/ TxnRun(s)
    \/ Restart

SpecJobs == Init /\ [][NextJobs]_vars

\* two sessions call the function of the same job, and the calls may overlap
NextOverlap ==
    \/ \E s \in Sessions, j \in Jobs :
         /\ \A t \in Sessions : txn[t].job \in {"none", j}
         /\ TxnLoad(s, j) \/ TxnRun(s)
    \/ Restart

SpecOverlap == Init /\ [][NextOverlap]_vars

----------------------------------------------------------------------------
(* sync_posts_from_remote called by itself, on any posts table *)

\* rows written by earlier calls; is_liked and is_processed are set by the
\* API layer, which the functions never write
StoredRows ==
    [raw_data : Datas, is_processed : BOOLEAN, is_liked : BOOLEAN,
     last_synced_at : {"PAST"}]

InitFetch ==
    /\ schedule_state = [j \in Jobs |-> [state |-> SeedState(j), last_run_at |-> "NULL"]]
    /\ cron_job = [j \in Jobs |-> IF j = BACKFILL THEN BOOT_DELAY ELSE RECENT_CRON]
    /\ posts \in [Ids -> StoredRows \cup {NoRow}]
    /\ last = [job |-> "none", outcome |-> "none", page |-> 0, processed_count |-> 0,
               resp |-> NoResponse]
    /\ fail_run = [j \in Jobs |-> 0]
    /\ fail_page = [j \in Jobs |-> 0]
    /\ stay = 0
    /\ run = <<>>
    /\ txn = [s \in Sessions |-> NoTxn]
    /\ ok_pages = {}

\* every kind of response, with a success or a non-success HTTP status
FetchResponses == RemoteResponses(Ids, Datas, MaxFetchItems, {"2xx", "5xx"})

FETCH == "sync_posts_from_remote"

\* SELECT sync_posts_from_remote(page)
SyncCall(page, R) ==
    \E resp \in R :
        IF SyncRaises(resp)
        THEN NoWrite(FETCH, "raised", page, resp)
        ELSE /\ posts' = SyncPosts(AgePosts(posts), resp)
             /\ schedule_state' = AgeRows(schedule_state)
             /\ last' = [job |-> FETCH, outcome |-> "done", page |-> page,
                         processed_count |-> SyncCount(resp), resp |-> resp]
             /\ UNCHANGED <<cron_job, fail_run, fail_page, stay, run, txn, ok_pages>>

NextFetch == SyncCall(1, FetchResponses)

SpecFetch == InitFetch /\ [][NextFetch]_vars

\* a post that is stored and that no page of the remote holds any more
ExtraId == MaxId + 1

KeptRow ==
    [raw_data |-> "a", is_processed |-> TRUE, is_liked |-> TRUE,
     last_synced_at |-> "PAST"]

\* any posts table over Ids, and the row of ExtraId beside it
InitFrame ==
    /\ schedule_state = [j \in Jobs |-> [state |-> SeedState(j), last_run_at |-> "NULL"]]
    /\ cron_job = [j \in Jobs |-> IF j = BACKFILL THEN BOOT_DELAY ELSE RECENT_CRON]
    /\ posts \in {p \in [Ids \cup {ExtraId} -> StoredRows \cup {NoRow}] :
                     p[ExtraId] = KeptRow}
    /\ last = [job |-> "none", outcome |-> "none", page |-> 0, processed_count |-> 0,
               resp |-> NoResponse]
    /\ fail_run = [j \in Jobs |-> 0]
    /\ fail_page = [j \in Jobs |-> 0]
    /\ stay = 0
    /\ run = <<>>
    /\ txn = [s \in Sessions |-> NoTxn]
    /\ ok_pages = {}

NextFrame == SyncCall(1, FetchResponses)

SpecFrame == InitFrame /\ [][NextFrame]_vars

----------------------------------------------------------------------------
(* The ticks as the claims speak of them.  A tick that raised was rolled   *)
(* back and gave no fetch result; a tick that found is_active = false      *)
(* called no Fetcher.                                                      *)

\* the step is a tick of job j that got fetch result Success / Empty / Failure
TickSuccess(j) ==
    last'.job = j /\ last'.outcome = "done" /\ last'.processed_count > 0
TickEmpty(j) ==
    last'.job = j /\ last'.outcome = "done" /\ last'.processed_count = 0
TickFailure(j) ==
    last'.job = j /\ last'.outcome = "done" /\ last'.processed_count = -1

\* the latest tick was one of job j with that fetch result
WasSuccess(j) ==
    last.job = j /\ last.outcome = "done" /\ last.processed_count > 0
WasEmpty(j) ==
    last.job = j /\ last.outcome = "done" /\ last.processed_count = 0
WasFailure(j) ==
    last.job = j /\ last.outcome = "done" /\ last.processed_count = -1

NoFinalStatus(state) == "final_status" \notin DOMAIN state

----------------------------------------------------------------------------
(* C1 - Backfill give-up threshold: after k consecutive Failure ticks from *)
(* retries = 0, with k <= MAX_RETRIES - 1, the job is still active with no *)
(* final_status and retries = k; exactly at the MAX_RETRIES-th consecutive *)
(* Failure it is inactive with final_status = failed, and no further       *)
(* Failure is counted.                                                     *)
C1_BackfillGiveUpThreshold ==
    LET k == fail_run[BACKFILL]
    IN  /\ k <= MAX_RETRIES
        /\ (k >= 1 /\ k <= MAX_RETRIES - 1) =>
              (Bf.is_active /\ NoFinalStatus(Bf) /\ Bf.retries = k)
        /\ k = MAX_RETRIES =>
              (~Bf.is_active /\ ~NoFinalStatus(Bf) /\ Bf.final_status = "failed")
        /\ (k = 0 /\ Bf.is_active) => Bf.retries = 0

C1_Witness ==
    /\ fail_run[BACKFILL] = MAX_RETRIES
    /\ WasFailure(BACKFILL)
    /\ ~Bf.is_active
    /\ Bf.final_status = "failed"

(* C2 - Backfill termination on Empty: a tick of an active Backfill row    *)
(* (any cursor, any retries) whose fetch result is Empty leaves            *)
(* is_active = false, final_status = completed and the job unscheduled.    *)
C2_BackfillEmptyCompletes ==
    [][TickEmpty(BACKFILL) =>
         /\ Bf.is_active
         /\ Bf'.is_active = FALSE
         /\ ~NoFinalStatus(Bf') /\ Bf'.final_status = "completed"
         /\ cron_job'[BACKFILL] = UNSCHEDULED]_vars

C2_Witness ==
    /\ WasEmpty(BACKFILL)
    /\ Bf.current_page > 1
    /\ Bf.retries > 0
    /\ ~Bf.is_active
    /\ Bf.final_status = "completed"
    /\ cron_job[BACKFILL] = UNSCHEDULED

(* C3 - Backfill terminal states are absorbing: once is_active = false, a  *)
(* later Backfill tick calls no Fetcher (no page fetched, no post written) *)
(* and no step changes the row's state or the job's cron entry.            *)
C3_BackfillTerminalAbsorbing ==
    [][~Bf.is_active =>
         /\ Bf' = Bf
         /\ cron_job'[BACKFILL] = cron_job[BACKFILL]
         /\ last'.job = BACKFILL =>
               /\ last'.outcome = "skipped"
               /\ last'.page = 0
               /\ posts' = AgePosts(posts)
               /\ schedule_state' = AgeRows(schedule_state)]_vars

C3_Witness ==
    /\ last.job = BACKFILL
    /\ last.outcome = "skipped"
    /\ ~Bf.is_active
    /\ cron_job[BACKFILL] = UNSCHEDULED

(* C4 - Backfill Success transition: a tick of an active Backfill row with *)
(* cursor c whose fetch result is Success(n > 0) fetched page c and leaves *)
(* exactly {current_page: c + 1, retries: 0, is_active: true}, with no     *)
(* final_status, and the job rescheduled with the short delay.             *)
C4_BackfillSuccess ==
    [][TickSuccess(BACKFILL) =>
         /\ Bf.is_active
         /\ last'.page = Bf.current_page
         /\ Bf' = [current_page |-> Bf.current_page + 1, retries |-> 0,
                   is_active |-> TRUE]
         /\ cron_job'[BACKFILL] = SHORT_DELAY]_vars

C4_Witness ==
    /\ WasSuccess(BACKFILL)
    /\ last.page = 2
    /\ Bf = [current_page |-> 3, retries |-> 0, is_active |-> TRUE]
    /\ cron_job[BACKFILL] = SHORT_DELAY

(* C5 - Backfill retry monotonicity: a tick of an active Backfill row with *)
(* retries + 1 < MAX_RETRIES whose fetch result is Failure adds exactly 1  *)
(* to retries, changes nothing else of the row's state, and reschedules    *)
(* the job with the long delay.                                            *)
C5_BackfillRetry ==
    [][(TickFailure(BACKFILL) /\ Bf.retries + 1 < MAX_RETRIES) =>
         /\ Bf.is_active
         /\ Bf' = [Bf EXCEPT !.retries = Bf.retries + 1]
         /\ cron_job'[BACKFILL] = LONG_DELAY]_vars

C5_Witness ==
    /\ WasFailure(BACKFILL)
    /\ Bf.is_active
    /\ Bf.retries = MAX_RETRIES - 1
    /\ Bf.current_page > 1
    /\ cron_job[BACKFILL] = LONG_DELAY

\* the page after page p in the window 1..W
Following(p) == IF p = W THEN 1 ELSE p + 1

(* C6 - Recurring wraparound: in a run of sync-recent ticks that all       *)
(* return Success the pages fetched follow one another as p, p+1, ..., W,  *)
(* 1, 2, ...: from page 1 they are 1, 2, ..., W, 1; no page is repeated    *)
(* within W ticks, every page of 1..W is fetched once in W ticks, and the  *)
(* cursor is the page after the last one fetched.                          *)
C6_RecurringWraparound ==
    /\ \A k \in 1..Len(run) : run[k] \in 1..W
    /\ \A k \in 1..(Len(run) - 1) : run[k + 1] = Following(run[k])
    /\ \A i, j \in 1..Len(run) : (i < j /\ j <= W) => run[i] # run[j]
    /\ Len(run) >= W => {run[k] : k \in 1..W} = 1..W
    /\ (Len(run) > 0 /\ run[1] = 1) =>
          \A k \in 1..Len(run) : run[k] = IF k <= W THEN k ELSE 1
    /\ Len(run) > 0 =>
          (Rc.retries = 0 /\ Rc.current_page = Following(run[Len(run)]))

C6_Witness ==
    /\ run = [k \in 1..(W + 1) |-> IF k <= W THEN k ELSE 1]
    /\ WasSuccess(RECENT)
    /\ Rc.current_page = 2

(* C7 - Recurring self-healing: a sync-recent tick with                     *)
(* retries + 1 >= MAX_RETRIES_RECURRING whose fetch result is Failure      *)
(* leaves exactly {current_page: (cursor mod W) + 1, retries: 0}; and the  *)
(* MAX_RETRIES_RECURRING-th consecutive Failure on a page is such a tick.  *)
C7_RecurringSelfHealing ==
    [][/\ (TickFailure(RECENT) /\ Rc.retries + 1 >= MAX_RETRIES_RECURRING) =>
            Rc' = [current_page |-> (Rc.current_page % W) + 1, retries |-> 0]
       /\ (TickFailure(RECENT) /\ fail_run'[RECENT] = MAX_RETRIES_RECURRING) =>
            /\ Rc.retries + 1 >= MAX_RETRIES_RECURRING
            /\ Rc'.current_page # Rc.current_page
            /\ Rc'.retries = 0]_vars

C7_Witness ==
    /\ WasFailure(RECENT)
    /\ fail_run[RECENT] = MAX_RETRIES_RECURRING
    /\ last.page = W
    /\ Rc = [current_page |-> 1, retries |-> 0]

C9_RecurringRetry ==
    [][/\ (TickFailure(RECENT) /\ Rc.retries + 1 < MAX_RETRIES_RECURRING) =>
            Rc' = [current_page |-> Rc.current_page, retries |-> Rc.retries + 1]
       /\ last'.job = RECENT => last'.page = Rc.current_page]_vars

C9_Witness ==
    /\ WasFailure(RECENT)
    /\ fail_run[RECENT] = MAX_RETRIES_RECURRING - 1
    /\ Rc = [current_page |-> last.page, retries |-> MAX_RETRIES_RECURRING - 1]

(* C10 - Recurring treats Empty as success: a sync-recent tick whose fetch *)
(* result is Empty leaves exactly {current_page: (cursor mod W) + 1,       *)
(* retries: 0}, the state a Success(n > 0) leaves from the same row, and   *)
(* the job keeps its cron entry.                                           *)
C10_RecurringEmptyAsSuccess ==
    [][TickEmpty(RECENT) =>
         /\ Rc' = [current_page |-> (Rc.current_page % W) + 1, retries |-> 0]
         /\ \A n \in 1..MaxItems : Rc' = RecurringState(Rc, n)
         /\ cron_job'[RECENT] = RECENT_CRON]_vars

C10_Witness ==
    /\ WasEmpty(RECENT)
    /\ fail_run[RECENT] = 0
    /\ last.page = W
    /\ Rc = [current_page |-> 1, retries |-> 0]
    /\ cron_job[RECENT] = RECENT_CRON

(* C11 - Retry bound: in every state left by a tick, after any ticks and   *)
(* fetch results from the seed, the Backfill row has                       *)
(* 0 <= retries <= MAX_RETRIES and the Recurring row has                   *)
(* 0 <= retries <= MAX_RETRIES_RECURRING.                                  *)
C11_RetryBound ==
    /\ Bf.retries \in 0..MAX_RETRIES
    /\ Rc.retries \in 0..MAX_RETRIES_RECURRING

C11_Witness ==
    /\ WasFailure(BACKFILL)
    /\ Bf.retries = MAX_RETRIES - 1
    /\ Rc.retries = MAX_RETRIES_RECURRING - 1

(* C12 - Recurring cursor range: after any ticks and fetch results from    *)
(* the seed, the cursor of the Recurring row is an integer in 1..W.        *)
C12_RecurringCursorRange == Rc.current_page \in 1..W

C12_Witness ==
    /\ last.job = RECENT
    /\ last.outcome = "done"
    /\ last.page = W - 1
    /\ Rc.current_page = W

(* C13 - Backfill cursor monotonicity: no step decreases the cursor of the *)
(* Backfill row, and every step changes it by 0 or by +1.                  *)
C13_BackfillCursorMonotone ==
    [][\/ Bf'.current_page = Bf.current_page
       \/ Bf'.current_page = Bf.current_page + 1]_vars

C13_Witness ==
    /\ WasFailure(BACKFILL)
    /\ last.page = 2
    /\ Bf.current_page = 2
    /\ Bf.retries = 1

(* C14 - final_status is write-once: once the Backfill row has a           *)
(* final_status (completed or failed), every later state has that same     *)
(* final_status, whatever ticks and fetch results follow.                  *)
C14_FinalStatusWriteOnce ==
    [][~NoFinalStatus(Bf) =>
         /\ ~NoFinalStatus(Bf')
         /\ Bf'.final_status = Bf.final_status]_vars

C14_Witness ==
    /\ last.job = BACKFILL
    /\ last.outcome = "skipped"
    /\ ~NoFinalStatus(Bf)
    /\ Bf.final_status = "failed"

\* the remote call ended in a transport error, a body that does not decode,
\* or a non-success HTTP status
RemoteFailed(resp) ==
    \/ resp.kind = "error"
    \/ resp.kind = "notjson"
    \/ resp.status = "5xx"

(* C15 - Fetcher failure folding: a call of sync_posts_from_remote whose   *)
(* remote call ended in a transport error, a decode error or a non-success *)
(* HTTP status returns -1 (Failure), raises nothing, and writes no row of  *)
(* posts.                                                                  *)
C15_FailureFolding ==
    [][(last'.job = FETCH /\ RemoteFailed(last'.resp)) =>
         /\ last'.outcome = "done"
         /\ last'.processed_count = -1
         /\ posts' = AgePosts(posts)]_vars

(* C16 - Backfill completes only on true exhaustion: the Backfill row gets *)
(* final_status = completed only in a tick whose response had a success    *)
(* status and an empty JSON array as body; never after a transport error,  *)
(* a non-success status or a missing or undecodable body.                  *)
C16_CompletedOnlyOnExhaustion ==
    (last.job = BACKFILL /\ last.outcome = "done"
        /\ ~NoFinalStatus(Bf) /\ Bf.final_status = "completed") =>
      /\ last.resp.kind = "array"
      /\ last.resp.items = <<>>
      /\ last.resp.status = "2xx"

\* the item of a response that was received last for post id i
LastItemFor(items, i) ==
    items[CHOOSE k \in 1..Len(items) :
            /\ items[k].id = i
            /\ \A j \in (k + 1)..Len(items) : items[j].id # i]

\* a posts table without its last_synced_at values
WithoutSyncTime(store) ==
    [i \in DOMAIN store |->
        IF store[i] = NoRow THEN NoRow
        ELSE [raw_data |-> store[i].raw_data,
              is_processed |-> store[i].is_processed,
              is_liked |-> store[i].is_liked]]

\* the call of this step got a 2xx response whose body is a JSON array
FetchedArray ==
    /\ last'.job = FETCH
    /\ last'.resp.kind = "array"
    /\ last'.resp.status = "2xx"

(* C17 - Fetcher success result: a call that receives N > 0 items returns  *)
(* N, and afterwards posts holds for every id of the response one row,     *)
(* whose raw_data is the item received (last) for that id, synced now; a   *)
(* call that receives an empty list returns 0 and changes no row.          *)
C17_FetcherResult ==
    [][FetchedArray =>
         LET items == last'.resp.items
         IN  /\ last'.outcome = "done"
             /\ last'.processed_count = Len(items)
             /\ \A k \in 1..Len(items) :
                   LET i == items[k].id
                   IN  /\ posts'[i] # NoRow
                       /\ posts'[i].raw_data = LastItemFor(items, i).data
                       /\ posts'[i].last_synced_at = "NOW"
             /\ Len(items) = 0 => posts' = AgePosts(posts)]_vars

C17_Witness ==
    /\ WasSuccess(FETCH)
    /\ last.processed_count = 2
    /\ last.resp.items = <<[id |-> 1, data |-> "a"], [id |-> 1, data |-> "b"]>>
    /\ posts[1].raw_data = "b"
    /\ posts[1].is_liked

(* C18 - Idempotent upsert: for every posts table and every list of items, *)
(* applying the list twice leaves the same rows (ids, raw_data and the     *)
(* other columns) as applying it once, last_synced_at aside; so a call     *)
(* that repeats the response of the call before it changes no row.         *)
C18_IdempotentUpsert ==
    /\ [](\A r \in FetchResponses :
            WithoutSyncTime(SyncPosts(SyncPosts(posts, r), r))
              = WithoutSyncTime(SyncPosts(posts, r)))
    /\ [][(/\ last.job = FETCH /\ last.outcome = "done"
           /\ last'.job = FETCH /\ last'.outcome = "done"
           /\ last'.resp = last.resp) =>
            WithoutSyncTime(posts') = WithoutSyncTime(posts)]_vars

C18_Witness ==
    /\ WasSuccess(FETCH)
    /\ posts[1] # NoRow
    /\ posts[1].is_processed
    /\ posts[1].raw_data = "a"
    /\ posts = SyncPosts(posts, last.resp)

(* C19 (as stated) - Backfill last_run_at: every Backfill tick leaves the  *)
(* row's last_run_at at the time of that tick, whichever branch it takes:  *)
(* Success, Empty, Failure-retry, Failure-give-up, or active=false.        *)
C19_LastRunAtEveryTick ==
    (last.job = BACKFILL /\ last.outcome \in {"done", "skipped"}) =>
        schedule_state[BACKFILL].last_run_at = "NOW"

(* C19 (amended) - a Backfill tick that takes one of the branches Success, *)
(* Empty, Failure-retry or Failure-give-up leaves last_run_at at the time  *)
(* of that tick; the tick that finds active=false does not write it.       *)
C19_LastRunAtActiveTicks ==
    /\ (last.job = BACKFILL /\ last.outcome = "done") =>
          schedule_state[BACKFILL].last_run_at = "NOW"
    /\ (last.job = BACKFILL /\ last.outcome = "skipped") =>
          schedule_state[BACKFILL].last_run_at = "PAST"

C19_Witness ==
    /\ last.job = BACKFILL
    /\ last.outcome = "skipped"
    /\ ~Bf.is_active
    /\ Bf.final_status = "failed"
    /\ schedule_state[BACKFILL].last_run_at = "PAST"

----------------------------------------------------------------------------
(* Calls taken statement by statement *)

\* the state a tick of job j leaves when it runs alone on state with result n
TickState(j, state, n) ==
    IF j = RECENT THEN RecurringState(state, n)
    ELSE IF IsActive(state) THEN BackfillState(state, n)
    ELSE state

\* session s has made one call, of job j, and the call returned
OneCallReturned(s, j) ==
    /\ txn[s].pc = "idle"
    /\ txn[s].calls = 1
    /\ txn[s].job = j
    /\ txn[s].outcome \in {"done", "skipped"}

(* C21 - No lost update within one job: when two calls of the same job's   *)
(* tick overlap, the persisted state of the job is the state that the two  *)
(* ticks leave when they run one after the other, in one of the two        *)
(* orders, with the fetch results they had.                                *)
C21_NoLostUpdate ==
    \A j \in Jobs :
        (\A s \in Sessions : OneCallReturned(s, j)) =>
            \E a, b \in Sessions :
                /\ a # b
                /\ schedule_state[j].state =
                     TickState(j, TickState(j, SeedState(j), txn[a].processed_count),
                               txn[b].processed_count)

\* the latest calls of sessions a and b overlapped: each began before the
\* other ended
Overlapped(a, b) ==
    /\ a # b
    /\ txn[a].since < txn[b].order
    /\ txn[b].since < txn[a].order

(* C22 - Job independence: a tick of one job reads and writes only the row *)
(* of that job, so however the statements of a Backfill tick and of a      *)
(* Recurring tick interleave, each row is what that job's tick leaves when *)
(* it runs alone: the row of a job that has not yet written is the seed    *)
(* row whatever the other job did, and after the tick it is the seed row   *)
(* with that tick's transition applied.                                    *)
C22_JobIndependence ==
    \A s \in Sessions :
        LET j == JobOf(s)
        IN  /\ (txn[s].calls = 0) =>
                  schedule_state[j] = [state |-> SeedState(j), last_run_at |-> "NULL"]
            /\ (OneCallReturned(s, j)) =>
                  schedule_state[j].state =
                      TickState(j, SeedState(j), txn[s].processed_count)
            /\ cron_job[RECENT] = RECENT_CRON

C22_Witness ==
    /\ OneCallReturned("s1", BACKFILL)
    /\ OneCallReturned("s2", RECENT)
    /\ Overlapped("s1", "s2")
    /\ txn["s1"].processed_count = -1
    /\ txn["s2"].processed_count > 0
    /\ Bf.retries = 1
    /\ Rc.current_page = 2

\* the latest call of session s returned after upserting an item for post i
Upserted(s, i) ==
    /\ txn[s].pc = "idle"
    /\ txn[s].outcome = "done"
    /\ \E k \in 1..Len(txn[s].resp.items) : txn[s].resp.items[k].id = i

(* C23 - Concurrent upsert safety: when a Backfill tick and a Recurring     *)
(* tick both upsert an item for the same post id, then however their       *)
(* statements interleave, posts ends with the one row of that id, and the  *)
(* row is the write of the tick that ended last: its item as raw_data, its *)
(* time as last_synced_at, the other columns as the insert left them.      *)
C23_ConcurrentUpsert ==
    \A i \in Ids : \A a, b \in Sessions :
        (Upserted(a, i) /\ Upserted(b, i) /\ txn[a].order < txn[b].order) =>
            /\ posts[i] # NoRow
            /\ posts[i] = [raw_data |-> LastItemFor(txn[b].resp.items, i).data,
                           is_processed |-> FALSE, is_liked |-> FALSE,
                           last_synced_at |-> "NOW"]

C23_Witness ==
    /\ Upserted("s1", 1)
    /\ Upserted("s2", 1)
    /\ Overlapped("s1", "s2")
    /\ txn["s2"].order < txn["s1"].order
    /\ posts[1].raw_data = "a"

\* the step is the start of a call in session s: the SELECT of the row
TxnLoads(s) ==
    /\ txn[s].pc = "idle"
    /\ \/ txn'[s].pc = "loaded"
       \/ txn'[s].calls = txn[s].calls + 1

\* the step is the end of a call in session s that wrote the row
TxnWrites(s) ==
    /\ txn[s].pc = "fetched"
    /\ txn'[s].outcome = "done"

(* C24 - Ticks are causally ordered and restart-safe: the state a tick of  *)
(* a job reads at its start is the state the job's previous committed tick *)
(* wrote (the seed state for the first), whether or not the server         *)
(* restarted in between, and the state a tick writes is a function of the  *)
(* persisted row and the fetch result alone.                               *)
C24_CausalOrder ==
    [][\A s \in Sessions :
         LET j == JobOf(s)
         IN  /\ TxnLoads(s) =>
                   /\ txn'[s].loaded = schedule_state[j].state
                   /\ txn'[s].loaded = IF txn[s].wrote = NoTxn.wrote THEN SeedState(j)
                                       ELSE txn[s].wrote
             /\ TxnWrites(s) =>
                   schedule_state'[j].state =
                       TickState(j, schedule_state[j].state, txn[s].processed_count)]_vars

C24_Witness ==
    /\ txn["s1"].pc = "loaded"
    /\ txn["s1"].calls = 1
    /\ txn["s1"].wrote # NoTxn.wrote
    /\ txn["s1"].loaded.retries = 1
    /\ txn["s2"].calls = 1
    /\ txn["s2"].job = "none"

(* C25 - State-store failure handling: after a tick whose fetch succeeded  *)
(* and whose save of the job state failed, the tick has ended in an error, *)
(* the items it upserted are in posts, and the job row has the cursor and  *)
(* retries it had before the tick.                                         *)
C25_SaveFailureKeepsUpserts ==
    \A s \in Sessions :
        (/\ txn[s].pc = "idle"
         /\ txn[s].outcome = "save failed"
         /\ txn[s].processed_count > 0) =>
            /\ \A k \in 1..Len(txn[s].resp.items) :
                  posts[txn[s].resp.items[k].id] # NoRow
            /\ schedule_state[txn[s].job].state = txn[s].loaded

(* C26 - Retry-budget exhaustion is not an error outcome: the Backfill     *)
(* tick that meets a failed HTTP request with retries + 1 at MAX_RETRIES   *)
(* returns normally; what it leaves is is_active = false and final_status  *)
(* = failed in the row, and the job unscheduled.                           *)
C26_ExhaustionNotRaised ==
    [][(/\ last'.job = BACKFILL
        /\ last'.resp.kind = "error"
        /\ Bf.is_active
        /\ Bf.retries + 1 >= MAX_RETRIES) =>
           /\ last'.outcome = "done"
           /\ ~Bf'.is_active
           /\ Bf'.final_status = "failed"
           /\ cron_job'[BACKFILL] = UNSCHEDULED]_vars

C26_Witness ==
    /\ last.job = BACKFILL
    /\ last.resp.kind = "error"
    /\ last.outcome = "done"
    /\ fail_run[BACKFILL] = MAX_RETRIES
    /\ ~Bf.is_active
    /\ Bf.final_status = "failed"
    /\ cron_job[BACKFILL] = UNSCHEDULED

(* C27 - Recurring has no terminal state: 'sync-recent' keeps its cron     *)
(* entry with the schedule of the bootstrap in every reachable state, no   *)
(* tick sets or removes it, and every Recurring tick calls the Fetcher,    *)
(* for the cursor of the row, whatever the results before it were.         *)
C27_RecurringNeverTerminal ==
    /\ [](cron_job[RECENT] = RECENT_CRON)
    /\ [][last'.job = RECENT =>
            /\ last'.outcome \in {"done", "raised"}
            /\ last'.resp # NoResponse
            /\ last'.page = Rc.current_page]_vars

C27_Witness ==
    /\ WasFailure(RECENT)
    /\ fail_run[RECENT] = MAX_RETRIES_RECURRING
    /\ last.page = W
    /\ Rc.current_page = 1
    /\ cron_job[RECENT] = RECENT_CRON
    /\ cron_job[BACKFILL] = UNSCHEDULED

\* the consecutive Failure results of job j since its cursor last changed
FailuresOnPage(j) ==
    IF fail_run[j] > 0 /\ fail_page[j] = schedule_state[j].state.current_page
    THEN fail_run[j] ELSE 0

(* C28 (as stated) - retries is a consecutive-failure counter: for both    *)
(* jobs retries is 0 after a tick with result Success, and while the       *)
(* cursor stays on a page retries is the number of consecutive Failure     *)
(* results since the cursor last changed or since the seed state.  (A      *)
(* Backfill row that an Empty completed is left out: its run of Failures   *)
(* was ended by the Empty.)                                                *)
C28_RetriesCountFailures ==
    /\ \A j \in Jobs : WasSuccess(j) => schedule_state[j].state.retries = 0
    /\ Rc.retries = FailuresOnPage(RECENT)
    /\ (NoFinalStatus(Bf) \/ Bf.final_status # "completed") =>
          Bf.retries = FailuresOnPage(BACKFILL)

(* C28 (amended) - the same while the Backfill job is active; the Backfill *)
(* tick that gives up does not count its own Failure: the failed row keeps *)
(* retries = MAX_RETRIES - 1 after MAX_RETRIES consecutive Failures.       *)
C28_RetriesCountFailuresWhileActive ==
    /\ \A j \in Jobs : WasSuccess(j) => schedule_state[j].state.retries = 0
    /\ Rc.retries = FailuresOnPage(RECENT)
    /\ Bf.is_active => Bf.retries = FailuresOnPage(BACKFILL)
    /\ (~NoFinalStatus(Bf) /\ Bf.final_status = "failed") =>
          /\ FailuresOnPage(BACKFILL) = MAX_RETRIES
          /\ Bf.retries = MAX_RETRIES - 1

C28_Witness ==
    /\ ~Bf.is_active
    /\ Bf.final_status = "failed"
    /\ Bf.retries = MAX_RETRIES - 1
    /\ fail_run[BACKFILL] = MAX_RETRIES
    /\ Rc.retries = 2
    /\ fail_run[RECENT] = 2
    /\ WasFailure(RECENT)

(* C29 - Backfill schedule follows the last tick: 'backfill-all' has a     *)
(* cron entry exactly while the row has is_active = true; after a tick     *)
(* with result Success the entry's delay is 10 seconds, after a Failure    *)
(* that is retried it is 5 minutes; after an Empty or a give-up there is   *)
(* no entry, and pg_cron fires no further tick: every tick that fires      *)
(* starts from an active, scheduled job.                                   *)
C29_ScheduleFollowsTick ==
    /\ []((cron_job[BACKFILL] # UNSCHEDULED) <=> Bf.is_active)
    /\ [](WasSuccess(BACKFILL) => cron_job[BACKFILL] = SHORT_DELAY)
    /\ []((WasFailure(BACKFILL) /\ Bf.is_active) => cron_job[BACKFILL] = LONG_DELAY)
    /\ []((WasEmpty(BACKFILL) \/ (WasFailure(BACKFILL) /\ ~Bf.is_active)) =>
             cron_job[BACKFILL] = UNSCHEDULED)
    /\ [][Bf.is_active /\ cron_job[BACKFILL] # UNSCHEDULED]_vars

C29_Witness ==
    /\ WasFailure(BACKFILL)
    /\ Bf.is_active
    /\ Bf.current_page = 2
    /\ Bf.retries = 1
    /\ cron_job[BACKFILL] = LONG_DELAY

\* the tick of this step made one call of the Fetcher, for page p, and if
\* the call returned applied the transition of job j for its result to row
OneFetchAt(j, p, row) ==
    /\ last'.outcome \in {"done", "raised"}
    /\ last'.resp # NoResponse
    /\ last'.page = p
    /\ last'.outcome = "done" =>
          /\ last'.processed_count = SyncCount(last'.resp)
          /\ schedule_state'[j].state = TickState(j, row, last'.processed_count)

(* C30 - One fetch per tick at the loaded cursor: every Backfill tick that *)
(* finds is_active = true, and every Recurring tick, calls the Fetcher     *)
(* once, for the page that is the cursor of the row at the start of the    *)
(* tick, and applies to the result the one transition its value selects.   *)
C30_OneFetchPerTick ==
    [][/\ (last'.job = BACKFILL /\ Bf.is_active) =>
             OneFetchAt(BACKFILL, Bf.current_page, Bf)
       /\ (last'.job = RECENT) =>
             OneFetchAt(RECENT, Rc.current_page, Rc)]_vars

C30_Witness ==
    /\ WasSuccess(BACKFILL)
    /\ last.page = 2
    /\ last.processed_count = 1
    /\ last.resp.kind = "array"
    /\ Bf.current_page = 3
    /\ Rc.current_page = 2

----------------------------------------------------------------------------
(* C31 - Bootstrap state: before any tick the row of backfill-all is       *)
(* {current_page 1, retries 0, is_active true} with no final_status, the   *)
(* row of sync-recent is {current_page 1, retries 0}, and both jobs have   *)
(* their cron entry; the first tick of each job fetches page 1.            *)
C31_BootstrapState ==
    /\ [](last.job = "none" =>
            /\ schedule_state[BACKFILL] =
                 [state |-> [current_page |-> 1, retries |-> 0, is_active |-> TRUE],
                  last_run_at |-> "NULL"]
            /\ schedule_state[RECENT] =
                 [state |-> [current_page |-> 1, retries |-> 0], last_run_at |-> "NULL"]
            /\ cron_job[BACKFILL] = BOOT_DELAY
            /\ cron_job[RECENT] = RECENT_CRON)
    /\ [][\A j \in Jobs :
            (schedule_state[j].last_run_at = "NULL" /\ last'.job = j) =>
                /\ last'.resp # NoResponse
                /\ last'.page = 1]_vars

C31_Witness ==
    /\ last.job = RECENT
    /\ last.outcome = "done"
    /\ last.page = 1
    /\ schedule_state[RECENT].last_run_at = "NOW"
    /\ schedule_state[BACKFILL].last_run_at = "NULL"
    /\ Bf = [current_page |-> 1, retries |-> 0, is_active |-> TRUE]

(* C32 - Backfill skips no page: with ticks run one at a time, every page  *)
(* p with 1 <= p < cursor of backfill-all was fetched by an earlier        *)
(* Backfill tick with result Success; the cursor is never past a page that *)
(* was not fetched successfully.                                           *)
C32_BackfillSkipsNoPage ==
    \A p \in 1..(Bf.current_page - 1) : p \in ok_pages

C32_Witness ==
    /\ Bf.current_page = MaxPage
    /\ ok_pages = 1..(MaxPage - 1)
    /\ fail_run[BACKFILL] = 2
    /\ Bf.retries = 2

(* C33 - Backfill active flag and final_status agree: in every reachable   *)
(* state of the backfill-all row, is_active is false exactly when          *)
(* final_status is present, and then it is completed or failed; while      *)
(* is_active is true the row has no final_status.                          *)
C33_ActiveAgreesWithFinalStatus ==
    /\ ~Bf.is_active <=> ~NoFinalStatus(Bf)
    /\ ~NoFinalStatus(Bf) => Bf.final_status \in {"completed", "failed"}
    /\ DOMAIN Bf \subseteq {"current_page", "retries", "is_active", "final_status"}

C33_Witness ==
    /\ ~Bf.is_active
    /\ Bf.final_status = "completed"
    /\ Bf.current_page = 2
    /\ Bf.retries = 3
    /\ last.job = RECENT

(* C34 - Backfill terminal transitions keep cursor and retries: the tick   *)
(* that ends the job (Empty, or Failure at the threshold) changes in the   *)
(* row only is_active, final_status and last_run_at; current_page and      *)
(* retries are as before the tick, so after a give-up retries is           *)
(* MAX_RETRIES - 1 and current_page is the page that failed.               *)
C34_TerminalKeepsCursor ==
    [][(Bf.is_active /\ ~Bf'.is_active) =>
          /\ TickEmpty(BACKFILL) \/ TickFailure(BACKFILL)
          /\ Bf'.current_page = Bf.current_page
          /\ Bf'.retries = Bf.retries
          /\ Bf' = Merge(Bf, [is_active |-> FALSE, final_status |-> Bf'.final_status])
          /\ schedule_state'[BACKFILL].last_run_at = "NOW"
          /\ TickFailure(BACKFILL) =>
                /\ Bf'.final_status = "failed"
                /\ Bf'.retries = MAX_RETRIES - 1
                /\ Bf'.current_page = last'.page]_vars

C34_Witness ==
    /\ WasEmpty(BACKFILL)
    /\ ~Bf.is_active
    /\ Bf.final_status = "completed"
    /\ Bf.retries = MAX_RETRIES - 1
    /\ Bf.current_page = last.page
    /\ last.page = 2

InPage(i) ==
    /\ last'.outcome = "done"
    /\ \E k \in 1..Len(last'.resp.items) : last'.resp.items[k].id = i

(* C36 - Upsert frame: a call of the Fetcher that updates a row that is    *)
(* already there replaces its raw_data and last_synced_at only, is_liked   *)
(* and is_processed keep their values; a row whose id is not in the page   *)
(* fetched is left as it is, and no row is ever deleted.                   *)
C36_UpsertFrame ==
    [][last'.job = FETCH =>
         /\ DOMAIN posts' = DOMAIN posts
         /\ \A i \in DOMAIN posts :
               /\ posts[i] # NoRow => posts'[i] # NoRow
               /\ (InPage(i) /\ posts[i] # NoRow) =>
                     posts'[i] = [posts[i] EXCEPT
                                    !.raw_data = LastItemFor(last'.resp.items, i).data,
                                    !.last_synced_at = "NOW"]
               /\ (~InPage(i) /\ posts[i] # NoRow) =>
                     posts'[i] = [posts[i] EXCEPT !.last_synced_at = Age(@)]
               /\ (~InPage(i) /\ posts[i] = NoRow) => posts'[i] = NoRow]_vars

C36_Witness ==
    /\ WasSuccess(FETCH)
    /\ Len(last.resp.items) = 1
    /\ posts[1] = [raw_data |-> "b", is_processed |-> TRUE, is_liked |-> TRUE,
                    last_synced_at |-> "NOW"]
    /\ posts[ExtraId] = KeptRow

====
